---- MODULE Spec2Model ----
(***************************************************************************)
(* Pocket Planner: the spatial constraint and optimization engine behind   *)
(* POST /optimize.                                                         *)
(*                                                                         *)
(* The request schema (models/api.py, models/room.py), the geometry kernel *)
(* (core/geometry.py) and the route handler (routes/optimize.py) are       *)
(* modelled from their source.  The constraint checker                     *)
(* (app.core.constraints.check_all_hard_constraints), the scorer and the   *)
(* optimizer (app.agents.graph.run_optimization) are imported by the route *)
(* but their source is not available; they are modelled from sections 4.2, *)
(* 4.3 and 4.4 of the specification, with the design constants the         *)
(* specification gives as examples.                                        *)
(*                                                                         *)
(* Several state machines share the module: the request handler of        *)
(* POST /optimize (Spec, FairSpec) and of POST /optimize/quick             *)
(* (QuickSpec); two invocations of the handler in flight at once           *)
(* (ConcurrentSpec); direct calls of the kernel, the checker and the       *)
(* scorer on layouts placed on a grid (KernelSpec); the constraint score   *)
(* of a growing violation list (ScorerSpec); direct calls of the furniture *)
(* density (DensitySpec) and of the post-processing of the detector's      *)
(* output in agents/vision_node.py (VisionSpec).                           *)
(*                                                                         *)
(* Scores are kept in exact integer arithmetic: sub-scores are whole       *)
(* points, totals are hundredths of a point.  Distances are compared by    *)
(* their squares.                                                          *)
(***************************************************************************)
EXTENDS Integers, Sequences, FiniteSets, TLC

(***************************************************************************)
(* Bounds of the model.                                                    *)
(***************************************************************************)
\* side of the grid cell on which the inputs place furniture
Cell == 50
\* furniture positions are 0, Cell, ..., MaxCell * Cell on each axis
MaxCell == 2
\* largest well-formed iteration budget tried (the schema allows up to 20)
MaxBudget == 2

(***************************************************************************)
(* Small helpers.                                                          *)
(***************************************************************************)
Min(a, b) == IF a <= b THEN a ELSE b

Max(a, b) == IF a >= b THEN a ELSE b

Abs(a) == IF a >= 0 THEN a ELSE 0 - a

Sq(a) == a * a

\* Body applied to the value of v, v being evaluated once (a local variable)
With(v, Body(_)) == CHOOSE r \in {Body(x) : x \in {v}} : TRUE

RECURSIVE ConcatUpTo(_, _)
ConcatUpTo(ss, n) == IF n = 0 THEN <<>> ELSE ConcatUpTo(ss, n - 1) \o ss[n]

\* the concatenation of a sequence of sequences
SeqConcat(ss) == With(ss, LAMBDA v : ConcatUpTo(v, Len(v)))

\* [F(x) for x in s]
SeqMap(s, F(_)) == With(s, LAMBDA v : [k \in 1..Len(v) |-> F(v[k])])

(***************************************************************************)
(* models/room.py: RoomObject.  bbox is <<x, y, width, height>>.           *)
(***************************************************************************)
MOVABLE == "movable"

STRUCTURAL == "structural"

X(obj) == obj.bbox[1]

Y(obj) == obj.bbox[2]

Width(obj) == obj.bbox[3]

Height(obj) == obj.bbox[4]

\* RoomObject.center: integer division, as in the source
Center(obj) == <<X(obj) + (Width(obj) \div 2), Y(obj) + (Height(obj) \div 2)>>

(***************************************************************************)
(* core/geometry.py.  A Shapely box(x, y, x+w, y+h) is the closed          *)
(* rectangle [MinX, MaxX] x [MinY, MaxY].                                  *)
(***************************************************************************)
bbox_to_polygon(bbox) ==
    [minx |-> Min(bbox[1], bbox[1] + bbox[3]),
     miny |-> Min(bbox[2], bbox[2] + bbox[4]),
     maxx |-> Max(bbox[1], bbox[1] + bbox[3]),
     maxy |-> Max(bbox[2], bbox[2] + bbox[4])]

object_to_polygon(obj) == bbox_to_polygon(obj.bbox)

\* intersects taken as "the interiors meet"
PolyIntersectsInterior(p, q) ==
    /\ p.minx < q.maxx
    /\ q.minx < p.maxx
    /\ p.miny < q.maxy
    /\ q.miny < p.maxy

\* Polygon.intersects: closed sets, so touching edges and corners intersect
PolyIntersects(p, q) ==
    /\ p.minx <= q.maxx
    /\ q.minx <= p.maxx
    /\ p.miny <= q.maxy
    /\ q.miny <= p.maxy

check_overlap(obj_a, obj_b) ==
    With(<<object_to_polygon(obj_a), object_to_polygon(obj_b)>>,
         LAMBDA poly : PolyIntersects(poly[1], poly[2]))

\* Polygon.intersection(...).area
PolyIntersectionArea(p, q) ==
    Max(0, Min(p.maxx, q.maxx) - Max(p.minx, q.minx))
      * Max(0, Min(p.maxy, q.maxy) - Max(p.miny, q.miny))

calculate_overlap_area(obj_a, obj_b) ==
    With(<<object_to_polygon(obj_a), object_to_polygon(obj_b)>>,
         LAMBDA poly : PolyIntersectionArea(poly[1], poly[2]))

\* the distance measured only from p towards larger coordinates
PolyDistanceSqOneSided(p, q) ==
    Sq(Max(0, q.minx - p.maxx)) + Sq(Max(0, q.miny - p.maxy))

\* Polygon.distance, squared: the gap along each axis, 0 where the spans meet
PolyDistanceSq(p, q) ==
    Sq(Max(0, Max(q.minx - p.maxx, p.minx - q.maxx)))
      + Sq(Max(0, Max(q.miny - p.maxy, p.miny - q.maxy)))

\* calculate_clearance(a, b) squared
calculate_clearance_sq(obj_a, obj_b) ==
    With(<<object_to_polygon(obj_a), object_to_polygon(obj_b)>>,
         LAMBDA poly : PolyDistanceSq(poly[1], poly[2]))

\* get_buffered_polygon(obj, d).intersects(polygon of other): the buffer is
\* the set of points within d of the rectangle, so it meets the other
\* rectangle exactly when the two are at most d apart.
BufferedIntersects(obj, buffer_distance, other) ==
    calculate_clearance_sq(obj, other) <= Sq(buffer_distance)

(***************************************************************************)
(* is_path_blocked.  LineString([start, end]).buffer(path_width / 2) is    *)
(* the set of points within path_width / 2 of the segment; it intersects a *)
(* rectangle exactly when segment and rectangle are at most path_width / 2 *)
(* apart.  On integer coordinates the polygonal approximation of the round *)
(* caps does not change the answer for the default width.                  *)
(***************************************************************************)
\* default of the path_width parameter
DefaultPathWidth == 45

None == "None"

Cross(a, b, p) == (b[1] - a[1]) * (p[2] - a[2]) - (b[2] - a[2]) * (p[1] - a[1])

Dot(a, b, p) == (b[1] - a[1]) * (p[1] - a[1]) + (b[2] - a[2]) * (p[2] - a[2])

DistSq(a, b) == Sq(b[1] - a[1]) + Sq(b[2] - a[2])

Corners(poly) ==
    {<<poly.minx, poly.miny>>, <<poly.maxx, poly.miny>>,
     <<poly.maxx, poly.maxy>>, <<poly.minx, poly.maxy>>}

\* segment [a, b] and closed rectangle share a point (separating axes: x, y
\* and the normal of the segment)
SegmentIntersects(a, b, poly) ==
    /\ Min(a[1], b[1]) <= poly.maxx
    /\ Max(a[1], b[1]) >= poly.minx
    /\ Min(a[2], b[2]) <= poly.maxy
    /\ Max(a[2], b[2]) >= poly.miny
    /\ \E c \in Corners(poly) : Cross(a, b, c) <= 0
    /\ \E c \in Corners(poly) : Cross(a, b, c) >= 0

\* point p is within width / 2 of the rectangle
PointNearPoly(p, poly, width) ==
    4 * (Sq(Max(0, Max(poly.minx - p[1], p[1] - poly.maxx)))
           + Sq(Max(0, Max(poly.miny - p[2], p[2] - poly.maxy)))) <= Sq(width)

\* point p is within width / 2 of the segment [a, b]; a point further than
\* width from the segment's bounding box is not, whatever the products say
PointNearSegment(p, a, b, width) ==
    LET len2 == DistSq(a, b)
        t    == Dot(a, b, p)
    IN  IF \/ p[1] < Min(a[1], b[1]) - width \/ p[1] > Max(a[1], b[1]) + width
           \/ p[2] < Min(a[2], b[2]) - width \/ p[2] > Max(a[2], b[2]) + width
        THEN FALSE
        ELSE IF len2 = 0 \/ t <= 0 THEN 4 * DistSq(a, p) <= Sq(width)
        ELSE IF t >= len2 THEN 4 * DistSq(b, p) <= Sq(width)
        ELSE 4 * Sq(Cross(a, b, p)) <= Sq(width) * len2

\* path_corridor.intersects(poly)
CorridorIntersects(start, end, width, poly) ==
    \/ SegmentIntersects(start, end, poly)
    \/ PointNearPoly(start, poly, width)
    \/ PointNearPoly(end, poly, width)
    \/ \E c \in Corners(poly) : PointNearSegment(c, start, end, width)

\* the loop without its skip
IsDoorwayNever(obj) == FALSE

\* the obstacles the loop does not skip
IsDoorway(obj) == obj.type = STRUCTURAL /\ obj.label = "door"

RECURSIVE FirstBlocker(_, _, _, _)
FirstBlocker(start, end, obstacles, path_width) ==
    IF obstacles = <<>> THEN [blocked |-> FALSE, blocker |-> None]
    ELSE IF /\ ~IsDoorway(Head(obstacles))
            /\ With(object_to_polygon(Head(obstacles)),
                    LAMBDA poly : CorridorIntersects(start, end, path_width, poly))
         THEN [blocked |-> TRUE, blocker |-> Head(obstacles).id]
         ELSE FirstBlocker(start, end, Tail(obstacles), path_width)

\* the obstacles walked from the last one to the first
is_path_blocked_backwards(start, end, obstacles, path_width) ==
    FirstBlocker(start, end,
                 [k \in 1..Len(obstacles) |-> obstacles[Len(obstacles) + 1 - k]],
                 path_width)

is_path_blocked(start, end, obstacles, path_width) ==
    With(<<start, end>>,
         LAMBDA ends : FirstBlocker(ends[1], ends[2], obstacles, path_width))

(***************************************************************************)
(* find_collisions: pairs (i, j), i < j, in index order, overlap > 0.      *)
(***************************************************************************)
\* the inner loop keeping every pair that check_overlap accepts
CollisionsFromOverlap(objects, i) ==
    LET rest == [k \in 1..(Len(objects) - i) |->
                    <<objects[i].id, objects[i + k].id,
                      calculate_overlap_area(objects[i], objects[i + k])>>]
        Overlapping(k) == check_overlap(objects[i], objects[i + k])
        kept == SelectSeq([k \in 1..(Len(objects) - i) |-> k], Overlapping)
    IN  [n \in 1..Len(kept) |-> rest[kept[n]]]

CollisionsFrom(objects, i) ==
    LET rest == [k \in 1..(Len(objects) - i) |->
                    <<objects[i].id, objects[i + k].id,
                      calculate_overlap_area(objects[i], objects[i + k])>>]
        Overlapping(c) == c[3] > 0
    IN  SelectSeq(rest, Overlapping)

\* find_collisions with the outer loop running backwards
find_collisions_backwards(objects) ==
    SeqConcat([i \in 1..Len(objects) |->
                  CollisionsFrom(objects, Len(objects) + 1 - i)])

find_collisions(objects) ==
    SeqConcat([i \in 1..Len(objects) |-> CollisionsFrom(objects, i)])

\* the far walls compared with < in place of <=
check_room_bounds_inside(obj, room_width, room_height) ==
    /\ X(obj) >= 0
    /\ Y(obj) >= 0
    /\ X(obj) + Width(obj) < room_width
    /\ Y(obj) + Height(obj) < room_height

check_room_bounds(obj, room_width, room_height) ==
    /\ X(obj) >= 0
    /\ Y(obj) >= 0
    /\ X(obj) + Width(obj) <= room_width
    /\ Y(obj) + Height(obj) <= room_height

(***************************************************************************)
(* Constraint checker (check_all_hard_constraints), specification 4.2.     *)
(* A violation is [constraint_name, severity, objects_involved]; the free  *)
(* text description is not modelled.                                       *)
(***************************************************************************)
\* minimum clearance between two movable objects
MinClearance == 45

\* buffer distance of a door's swing zone
DoorSwingRadius == 30

BOUNDS == "Bounds"

OVERLAP == "Overlap"

CLEARANCE == "Clearance"

DOOR_CLEARANCE == "Door clearance"

PATH_BLOCKING == "Path blocking"

\* position of a rule in the fixed rule order
RuleRank(name) ==
    CASE name = BOUNDS -> 1
      [] name = OVERLAP -> 2
      [] name = CLEARANCE -> 3
      [] name = DOOR_CLEARANCE -> 4
      [] name = PATH_BLOCKING -> 5

Violation(name, sev, ids) ==
    [constraint_name |-> name, severity |-> sev, objects_involved |-> ids]

\* index of the first object carrying the id
IndexOfId(objects, id) ==
    CHOOSE i \in 1..Len(objects) :
        /\ objects[i].id = id
        /\ \A k \in 1..(i - 1) : objects[k].id # id

\* all index pairs <<i, j>>, i < j, ordered by i and then by j
IndexPairs(n) ==
    SeqConcat([i \in 1..n |-> [k \in 1..(n - i) |-> <<i, i + k>>]])

\* rule 1: one violation for each object that is not within the room
BoundsViolations(objects, room_width, room_height) ==
    LET Outside(obj) == ~check_room_bounds(obj, room_width, room_height)
    IN  SeqMap(SelectSeq(objects, Outside),
               LAMBDA obj : Violation(BOUNDS, "error", <<obj.id>>))

\* rule 2 without the exception for two structural objects
OverlapViolationsAll(objects) ==
    SeqMap(find_collisions(objects),
           LAMBDA c : Violation(OVERLAP, "error", <<c[1], c[2]>>))

\* rule 2: one violation for each colliding pair, unless both are structural
OverlapViolations(objects) ==
    LET Reported(c) ==
            ~(/\ objects[IndexOfId(objects, c[1])].type = STRUCTURAL
              /\ objects[IndexOfId(objects, c[2])].type = STRUCTURAL)
    IN  SeqMap(SelectSeq(find_collisions(objects), Reported),
               LAMBDA c : Violation(OVERLAP, "error", <<c[1], c[2]>>))

\* rule 3 without the condition on the overlap area
ClearanceViolationsAnyArea(objects) ==
    LET TooClose(p) ==
            /\ objects[p[1]].type = MOVABLE
            /\ objects[p[2]].type = MOVABLE
            /\ calculate_clearance_sq(objects[p[1]], objects[p[2]]) < Sq(MinClearance)
    IN  SeqMap(SelectSeq(IndexPairs(Len(objects)), TooClose),
               LAMBDA p : Violation(CLEARANCE, "warning",
                                    <<objects[p[1]].id, objects[p[2]].id>>))

\* rule 3: movable pairs closer than MinClearance that do not overlap
ClearanceViolations(objects) ==
    LET TooClose(p) ==
            /\ objects[p[1]].type = MOVABLE
            /\ objects[p[2]].type = MOVABLE
            /\ calculate_clearance_sq(objects[p[1]], objects[p[2]]) < Sq(MinClearance)
            /\ calculate_overlap_area(objects[p[1]], objects[p[2]]) = 0
    IN  SeqMap(SelectSeq(IndexPairs(Len(objects)), TooClose),
               LAMBDA p : Violation(CLEARANCE, "warning",
                                    <<objects[p[1]].id, objects[p[2]].id>>))

\* rule 4: movable objects inside the swing zone of a door
DoorViolationsOf(objects, door) ==
    LET InZone(obj) ==
            /\ obj.type = MOVABLE
            /\ BufferedIntersects(door, DoorSwingRadius, obj)
    IN  SeqMap(SelectSeq(objects, InZone),
               LAMBDA obj : Violation(DOOR_CLEARANCE, "error", <<door.id, obj.id>>))

Doors(objects) == SelectSeq(objects, IsDoorway)

DoorClearanceViolations(objects) ==
    SeqConcat(SeqMap(Doors(objects), LAMBDA door : DoorViolationsOf(objects, door)))

\* the critical paths: from the centre of each door to the centre of the room
RoomCenter(room_width, room_height) == <<room_width \div 2, room_height \div 2>>

PathResult(objects, door, room_width, room_height) ==
    is_path_blocked(Center(door), RoomCenter(room_width, room_height),
                    objects, DefaultPathWidth)

\* the result of is_path_blocked for each critical path, in door order
PathResults(objects, room_width, room_height) ==
    SeqMap(Doors(objects),
           LAMBDA door : PathResult(objects, door, room_width, room_height))

\* rule 5: one violation for each blocked critical path, naming the blocker
PathViolations(objects, room_width, room_height) ==
    LET Blocked(r) == r.blocked
    IN  SeqMap(SelectSeq(PathResults(objects, room_width, room_height), Blocked),
               LAMBDA r : Violation(PATH_BLOCKING, "error", <<r.blocker>>))

check_all_hard_constraints(objects, room_width, room_height) ==
    With(objects, LAMBDA objs :
        BoundsViolations(objs, room_width, room_height)
          \o OverlapViolations(objs)
          \o ClearanceViolations(objs)
          \o DoorClearanceViolations(objs)
          \o PathViolations(objs, room_width, room_height))

(***************************************************************************)
(* Layout scorer, specification 4.3.  Sub-scores are whole points in       *)
(* 0..100; total_score is kept in hundredths of a point (0..10000).        *)
(***************************************************************************)
ErrorPenalty == 15

WarningPenalty == 5

\* weights of the three sub-scores, in percent
ConstraintWeight == 50

WalkabilityWeight == 30

PreferenceWeight == 20

\* the neutral preference score used while no preference rule is configured
DefaultPreference == 100

\* no clamping
ClampNone(v, lo, hi) == v

Clamp(v, lo, hi) == Max(lo, Min(hi, v))

\* the two penalties exchanged
PenaltySwapped(v) == IF v.severity = "error" THEN WarningPenalty ELSE ErrorPenalty

Penalty(v) == IF v.severity = "error" THEN ErrorPenalty ELSE WarningPenalty

RECURSIVE PenaltySum(_)
PenaltySum(violations) ==
    IF violations = <<>> THEN 0
    ELSE Penalty(Head(violations)) + PenaltySum(Tail(violations))

ConstraintScore(violations) == Clamp(100 - PenaltySum(violations), 0, 100)

\* share of the critical paths that are not blocked
WalkabilityScore(objects, room_width, room_height) ==
    LET Open(r) == ~r.blocked
    IN  With(PathResults(objects, room_width, room_height), LAMBDA results :
            IF results = <<>> THEN 100
            ELSE Clamp((100 * Len(SelectSeq(results, Open))) \div Len(results),
                       0, 100))

PreferenceScore(objects) == DefaultPreference

\* the score of a layout whose violation list is already known
ScoreOf(violations, objects, room_width, room_height) ==
    With(<<ConstraintScore(violations),
           WalkabilityScore(objects, room_width, room_height),
           PreferenceScore(objects)>>,
         LAMBDA sub :
            [total_score |-> Clamp(ConstraintWeight * sub[1] + WalkabilityWeight * sub[2]
                                     + PreferenceWeight * sub[3], 0, 10000),
             walkability_score |-> sub[2],
             constraint_score |-> sub[1],
             preference_score |-> sub[3]])

calculate_score(objects, room_width, room_height) ==
    ScoreOf(check_all_hard_constraints(objects, room_width, room_height),
            objects, room_width, room_height)

(***************************************************************************)
(* Request schema: models/room.py and models/api.py (pydantic Field        *)
(* constraints).                                                           *)
(***************************************************************************)
\* RoomDimensions with ge=0 in place of gt=0
ValidRoomDimensionsGe(dims) == dims.width_estimate >= 0 /\ dims.height_estimate >= 0

\* RoomDimensions: width_estimate and height_estimate are gt=0
ValidRoomDimensions(dims) == dims.width_estimate > 0 /\ dims.height_estimate > 0

\* RoomObject: bbox has exactly four integers; nothing constrains their sign
ValidRoomObject(obj) == Len(obj.bbox) = 4

MinIterations == 1

MaxIterations == 20

\* OptimizeRequest with max_iterations gt=1 in place of ge=1
ValidOptimizeRequestGt(req) ==
    /\ \A i \in 1..Len(req.current_layout) : ValidRoomObject(req.current_layout[i])
    /\ ValidRoomDimensions(req.room_dimensions)
    /\ req.max_iterations > MinIterations
    /\ req.max_iterations <= MaxIterations

\* OptimizeRequest: max_iterations is ge=1, le=20
ValidOptimizeRequest(req) ==
    /\ \A i \in 1..Len(req.current_layout) : ValidRoomObject(req.current_layout[i])
    /\ ValidRoomDimensions(req.room_dimensions)
    /\ req.max_iterations >= MinIterations
    /\ req.max_iterations <= MaxIterations

(***************************************************************************)
(* Optimizer (run_optimization), specification 4.4.                        *)
(***************************************************************************)
\* translations tried for an object, smallest first
MoveSteps == <<20, 40>>

Directions == << <<1, 0>>, <<-1, 0>>, <<0, 1>>, <<0, -1>> >>

\* input the engine rejects before its loop starts
WellFormedInput(objects, room_width, room_height) ==
    /\ room_width > 0
    /\ room_height > 0
    /\ \A i \in 1..Len(objects) : Width(objects[i]) > 0 /\ Height(objects[i]) > 0
    /\ \A i, j \in 1..Len(objects) : objects[i].id = objects[j].id => i = j

\* objects the run may not relocate: the explicit lock set and the fixtures
NonMovable(obj, locked_ids) ==
    obj.id \in locked_ids \/ obj.type = STRUCTURAL

SeverityRank(v) == IF v.severity = "error" THEN 2 ELSE 1

\* the highest-severity, then highest-impact violation; the earliest on ties
SelectViolation(violations) ==
    LET Beats(a, b) ==
            \/ SeverityRank(a) > SeverityRank(b)
            \/ /\ SeverityRank(a) = SeverityRank(b)
               /\ Len(a.objects_involved) > Len(b.objects_involved)
        k == CHOOSE i \in 1..Len(violations) :
                 /\ \A j \in 1..Len(violations) : ~Beats(violations[j], violations[i])
                 /\ \A j \in 1..(i - 1) :
                        Beats(violations[i], violations[j])
                          \/ Beats(violations[j], violations[i])
    IN  violations[k]

\* the candidate translations of the object at index i
MovesOf(i) ==
    SeqConcat([s \in 1..Len(MoveSteps) |->
        [d \in 1..Len(Directions) |->
            [index |-> i,
             dx |-> Directions[d][1] * MoveSteps[s],
             dy |-> Directions[d][2] * MoveSteps[s]]]])

\* candidates for the movable objects named in the violation, in order
Candidates(objects, locked_ids, violation) ==
    LET Free(id) == ~NonMovable(objects[IndexOfId(objects, id)], locked_ids)
    IN  SeqConcat(SeqMap(SelectSeq(violation.objects_involved, Free),
                         LAMBDA id : MovesOf(IndexOfId(objects, id))))

\* the scratch copy of the layout with the candidate applied
ApplyMove(objects, move) ==
    [objects EXCEPT ![move.index].bbox =
        <<@[1] + move.dx, @[2] + move.dy, @[3], @[4]>>]

Displacement(move) == Abs(move.dx) + Abs(move.dy)

\* step 5 for one candidate: the checker and the scorer on the scratch copy
ScoreCandidate(objects, room_width, room_height, move) ==
    With(ApplyMove(objects, move), LAMBDA scratch :
        With(check_all_hard_constraints(scratch, room_width, room_height),
             LAMBDA remaining :
                [move |-> move,
                 total |-> ScoreOf(remaining, scratch, room_width,
                                   room_height).total_score,
                 remaining |-> Len(remaining),
                 displacement |-> Displacement(move)]))

\* steps 3-5: the candidates for the selected violation, each with its score
ScoredCandidates(objects, locked_ids, room_width, room_height, found) ==
    SeqMap(Candidates(objects, locked_ids, SelectViolation(found)),
           LAMBDA move : ScoreCandidate(objects, room_width, room_height, move))

\* best total, then fewest remaining violations, then smallest displacement
BetterKey(a, b) ==
    \/ a.total > b.total
    \/ a.total = b.total /\ a.remaining < b.remaining
    \/ a.total = b.total /\ a.remaining = b.remaining
         /\ a.displacement < b.displacement

\* the best scored candidate; the earliest generated on ties
BestCandidate(scored) ==
    scored[CHOOSE i \in 1..Len(scored) :
               /\ \A j \in 1..Len(scored) : ~BetterKey(scored[j], scored[i])
               /\ \A j \in 1..(i - 1) : BetterKey(scored[i], scored[j])]

\* step 6 committing a candidate that merely equals the current total
ImprovesOrEqual(new_total, current_total) == new_total >= current_total

\* a candidate is committed only when it improves the total strictly
Improves(new_total, current_total) == new_total > current_total

MoveDescription(objects, move) ==
    [id |-> objects[move.index].id,
     from |-> objects[move.index].bbox,
     to |-> ApplyMove(objects, move)[move.index].bbox]

(***************************************************************************)
(* routes/optimize.py: optimize_layout.                                    *)
(***************************************************************************)
\* lines 36-39: the handler flags the locked objects of the request in place
MarkLockedObjects(current_layout, locked_ids) ==
    [i \in 1..Len(current_layout) |->
        IF current_layout[i].id \in locked_ids
        THEN [current_layout[i] EXCEPT !.is_locked = TRUE]
        ELSE current_layout[i]]

\* the call of lines 42-48 without the lock set
EngineArgsWithoutLocks(req) ==
    [objects |-> req.current_layout,
     room_width |-> req.room_dimensions.width_estimate,
     room_height |-> req.room_dimensions.height_estimate,
     locked_ids |-> {},
     max_iterations |-> req.max_iterations]

\* the call of lines 42-48 with a budget one too large
EngineArgsBudgetPlusOne(req) ==
    [objects |-> req.current_layout,
     room_width |-> req.room_dimensions.width_estimate,
     room_height |-> req.room_dimensions.height_estimate,
     locked_ids |-> req.locked_ids,
     max_iterations |-> req.max_iterations + 1]

\* lines 42-48: the arguments of run_optimization
EngineArgs(req) ==
    [objects |-> req.current_layout,
     room_width |-> req.room_dimensions.width_estimate,
     room_height |-> req.room_dimensions.height_estimate,
     locked_ids |-> req.locked_ids,
     max_iterations |-> req.max_iterations]

\* line 51 answering with the layout of the request
NewLayoutFromRequest(result, req) == req.current_layout

\* line 51: result.get("proposed_layout", request.current_layout)
NewLayout(result, req) == result.proposed_layout

\* line 54 counting one iteration too many
IterationsPlusOne(result) == result.iteration_count + 1

\* line 54: result.get("iteration_count", 0)
Iterations(result) == result.iteration_count

\* round(x, 1) on hundredths: to the nearest tenth, ties to the even tenth;
\* the result is again in hundredths
Round1(h) ==
    LET q == h \div 10
        r == h % 10
    IN  IF r < 5 THEN 10 * q
        ELSE IF r > 5 THEN 10 * (q + 1)
        ELSE IF q % 2 = 0 THEN 10 * q ELSE 10 * (q + 1)

\* the subtraction of lines 57-60 with its operands exchanged
ImprovementReversed(current_score, initial_score) ==
    Round1(initial_score.total_score - current_score.total_score)

\* lines 57-60 and 75
Improvement(current_score, initial_score) ==
    Round1(current_score.total_score - initial_score.total_score)

NoScore ==
    [total_score |-> 0, walkability_score |-> 0,
     constraint_score |-> 0, preference_score |-> 0]

NoArgs ==
    [objects |-> <<>>, room_width |-> 0, room_height |-> 0,
     locked_ids |-> {}, max_iterations |-> 0]

NoResponse ==
    [status |-> 0, new_layout |-> <<>>, explanation |-> <<>>, layout_score |-> 0,
     iterations |-> 0, constraint_violations |-> <<>>, improvement |-> 0]

\* lines 63-67 running the checker on the layout of the request
OptimizeResponseStaleViolations(result, req) ==
    [status |-> 200,
     new_layout |-> NewLayout(result, req),
     explanation |-> result.explanation,
     layout_score |-> result.current_score.total_score,
     iterations |-> Iterations(result),
     constraint_violations |->
         check_all_hard_constraints(req.current_layout,
                                    req.room_dimensions.width_estimate,
                                    req.room_dimensions.height_estimate),
     improvement |-> Improvement(result.current_score, result.initial_score)]

\* lines 69-76
OptimizeResponse(result, req) ==
    [status |-> 200,
     new_layout |-> NewLayout(result, req),
     explanation |-> result.explanation,
     layout_score |-> result.current_score.total_score,
     iterations |-> Iterations(result),
     constraint_violations |->
         check_all_hard_constraints(NewLayout(result, req),
                                    req.room_dimensions.width_estimate,
                                    req.room_dimensions.height_estimate),
     improvement |-> Improvement(result.current_score, result.initial_score)]

\* request validation failure raised by the framework before the handler runs
ValidationError == [NoResponse EXCEPT !.status = 422]

\* lines 78-82: HTTPException(status_code=500, "Optimization failed: ...")
OptimizationFailed == [NoResponse EXCEPT !.status = 500]

(***************************************************************************)
(* State.                                                                  *)
(***************************************************************************)
VARIABLES
    input,            \* the request as the caller sent it
    request,          \* the OptimizeRequest object the handler works on
    pc,               \* received, handler, marked, running, proposed, finished, done
    layout,           \* the optimizer's working layout
    engine,           \* the arguments run_optimization was called with
    violations,       \* the checker's list for the working layout
    candidates,       \* the scored candidates of the current iteration
    iteration_count,
    initial_score,
    current_score,
    explanation,      \* move descriptions, in the order committed
    outcome,          \* Idle, Running, Converged, BudgetExhausted, LocalOptimum
    seen,             \* total scores of every working layout of the run
    response,
    probe,            \* the arguments of a direct call; the second invocation
    called,           \* the function called last, "none" before any call
    answer            \* what that call returned

vars == <<input, request, pc, layout, engine, violations, candidates,
          iteration_count, initial_score, current_score, explanation, outcome,
          seen, response, probe, called, answer>>

\* the state of direct calls, which the request handler does not touch
kernel == <<probe, called, answer>>

(***************************************************************************)
(* Requests tried.                                                         *)
(***************************************************************************)
RoomSide == 160

Positions == {Cell * k : k \in 0..MaxCell}

Bed(x, y) ==
    [id |-> "bed_1", label |-> "bed", bbox |-> <<x, y, 40, 40>>,
     type |-> MOVABLE, is_locked |-> FALSE]

Desk(x, y) ==
    [id |-> "desk_1", label |-> "desk", bbox |-> <<x, y, 20, 20>>,
     type |-> MOVABLE, is_locked |-> FALSE]

Door ==
    [id |-> "door_1", label |-> "door", bbox |-> <<0, 40, 10, 40>>,
     type |-> STRUCTURAL, is_locked |-> FALSE]

\* one bed; a bed that sticks out of the room by 20, and a desk; a bed on
\* the top wall and a desk; a bed and a desk behind the door
Layouts ==
    {<<Bed(x, y)>> : x \in Positions, y \in Positions}
      \cup {<<Bed(RoomSide - 20, 0), Desk(x, y)>> : x \in Positions, y \in Positions}
      \cup {<<Bed(p[1], 0), Desk(p[2], p[3])>> :
              p \in Positions \X Positions \X Positions}
      \cup {<<Door, Bed(p[1], p[2]), Desk(p[3], p[4])>> :
              p \in Positions \X Positions \X Positions \X Positions}

\* budgets the schema accepts, and one on each side of its range
Budgets == (MinIterations..MaxBudget) \cup {MinIterations - 1, MaxIterations + 1}

Request(objects, locked, side, budget) ==
    [current_layout |-> objects,
     locked_ids |-> locked,
     room_dimensions |-> [width_estimate |-> side, height_estimate |-> side],
     max_iterations |-> budget]

\* malformed layouts: a duplicate id, a zero width, a negative height
MalformedLayouts ==
    {<<Bed(0, 0), [Desk(x, 0) EXCEPT !.id = "bed_1"]>> : x \in Positions}
      \cup {<<Bed(0, 0), [Desk(x, 0) EXCEPT !.bbox[3] = 0]>> : x \in Positions}
      \cup {<<Bed(0, 0), [Desk(x, 0) EXCEPT !.bbox[4] = -20]>> : x \in Positions}

Requests ==
    {Request(objects, locked, RoomSide, budget) :
        objects \in Layouts, locked \in SUBSET {"bed_1", "desk_1"},
        budget \in Budgets}
      \cup {Request(objects, {}, RoomSide, budget) :
              objects \in MalformedLayouts, budget \in Budgets}
      \cup {Request(<<Bed(0, 0)>>, {}, side, MinIterations) : side \in {0, -RoomSide}}

Init ==
    /\ input \in Requests
    /\ request = input
    /\ pc = "received"
    /\ layout = <<>>
    /\ engine = NoArgs
    /\ violations = <<>>
    /\ candidates = <<>>
    /\ iteration_count = 0
    /\ initial_score = NoScore
    /\ current_score = NoScore
    /\ explanation = <<>>
    /\ outcome = "Idle"
    /\ seen = {}
    /\ response = NoResponse
    /\ probe = <<>>
    /\ called = "none"
    /\ answer = None

(***************************************************************************)
(* Actions.                                                                *)
(***************************************************************************)
\* the framework parses the body into an OptimizeRequest, or answers 422
ParseRequest ==
    /\ pc = "received"
    /\ IF ValidOptimizeRequest(input)
       THEN /\ pc' = "handler"
            /\ response' = response
       ELSE /\ pc' = "done"
            /\ response' = ValidationError
    /\ UNCHANGED <<input, request, layout, engine, violations, candidates,
                   iteration_count, initial_score, current_score, explanation,
                   outcome, seen>>
    /\ UNCHANGED kernel

\* optimize_layout, lines 36-39
MarkLocked ==
    /\ pc = "handler"
    /\ request' = [request EXCEPT
                     !.current_layout = MarkLockedObjects(@, request.locked_ids)]
    /\ pc' = "marked"
    /\ UNCHANGED <<input, layout, engine, violations, candidates, iteration_count,
                   initial_score, current_score, explanation, outcome, seen,
                   response>>
    /\ UNCHANGED kernel

\* run_optimization is entered: malformed input raises, and the handler's
\* except clause turns that into a 500; otherwise the run is initialised
StartOptimization ==
    /\ pc = "marked"
    /\ LET args == EngineArgs(request)
       IN  /\ engine' = args
           /\ IF WellFormedInput(args.objects, args.room_width, args.room_height)
              THEN /\ layout' = args.objects
                   /\ violations' =
                          check_all_hard_constraints(args.objects, args.room_width,
                                                     args.room_height)
                   /\ initial_score' =
                          ScoreOf(violations', args.objects, args.room_width,
                                  args.room_height)
                   /\ current_score' = initial_score'
                   /\ seen' = {initial_score'.total_score}
                   /\ outcome' = "Running"
                   /\ pc' = "running"
                   /\ response' = response
              ELSE /\ pc' = "done"
                   /\ response' = OptimizationFailed
                   /\ UNCHANGED <<layout, violations, initial_score, current_score,
                                  seen, outcome>>
    /\ UNCHANGED <<input, request, candidates, iteration_count, explanation>>
    /\ UNCHANGED kernel

Finish(state) ==
    /\ outcome' = state
    /\ pc' = "finished"
    /\ UNCHANGED <<input, request, layout, engine, violations, candidates,
                   iteration_count, initial_score, current_score, explanation,
                   seen, response>>
    /\ UNCHANGED kernel

\* step 1: no violation left
Converge ==
    /\ pc = "running"
    /\ violations = <<>>
    /\ Finish("Converged")

\* step 2: the budget is used up
ExhaustBudget ==
    /\ pc = "running"
    /\ violations # <<>>
    /\ iteration_count >= engine.max_iterations
    /\ Finish("BudgetExhausted")

\* steps 3-5: select a violation, generate and score the candidates
EvaluateCandidates ==
    /\ pc = "running"
    /\ violations # <<>>
    /\ iteration_count < engine.max_iterations
    /\ candidates' = ScoredCandidates(layout, engine.locked_ids, engine.room_width,
                                      engine.room_height, violations)
    /\ pc' = "proposed"
    /\ UNCHANGED <<input, request, layout, engine, violations, iteration_count,
                   initial_score, current_score, explanation, outcome, seen,
                   response>>
    /\ UNCHANGED kernel

HasImprovingMove ==
    /\ candidates # <<>>
    /\ Improves(BestCandidate(candidates).total, current_score.total_score)

\* step 6: no candidate improves the score strictly
StopAtLocalOptimum ==
    /\ pc = "proposed"
    /\ ~HasImprovingMove
    /\ Finish("LocalOptimum")

\* step 7: commit the best candidate and run the checker on the new layout
CommitMove ==
    /\ pc = "proposed"
    /\ HasImprovingMove
    /\ layout' = ApplyMove(layout, BestCandidate(candidates).move)
    /\ explanation' = Append(explanation, MoveDescription(layout,
                                            BestCandidate(candidates).move))
    /\ violations' =
           check_all_hard_constraints(layout', engine.room_width, engine.room_height)
    /\ current_score' =
           ScoreOf(violations', layout', engine.room_width, engine.room_height)
    /\ seen' = seen \cup {current_score'.total_score}
    /\ iteration_count' = iteration_count + 1
    /\ pc' = "running"
    /\ UNCHANGED <<input, request, engine, candidates, initial_score, outcome, response>>
    /\ UNCHANGED kernel

\* what run_optimization returns
EngineResult ==
    [proposed_layout |-> layout,
     current_score |-> current_score,
     initial_score |-> initial_score,
     iteration_count |-> iteration_count,
     explanation |-> explanation]

\* optimize_layout, lines 50-76
Respond ==
    /\ pc = "finished"
    /\ response' = OptimizeResponse(EngineResult, request)
    /\ pc' = "done"
    /\ UNCHANGED <<input, request, layout, engine, violations, candidates,
                   iteration_count, initial_score, current_score, explanation,
                   outcome, seen>>
    /\ UNCHANGED kernel

Next ==
    \/ ParseRequest
    \/ MarkLocked
    \/ StartOptimization
    \/ Converge
    \/ ExhaustBudget
    \/ EvaluateCandidates
    \/ StopAtLocalOptimum
    \/ CommitMove
    \/ Respond

Spec == Init /\ [][Next]_vars

\* every request is served to completion
FairSpec == Spec /\ WF_vars(Next)

(***************************************************************************)
(* The handler as a function of its request: the same steps, composed.     *)
(***************************************************************************)
NoRun ==
    [layout |-> <<>>, violations |-> <<>>, initial_score |-> NoScore,
     current_score |-> NoScore, iteration_count |-> 0, explanation |-> <<>>,
     outcome |-> "Idle"]

\* the state run_optimization starts its loop in
EngineStart(args) ==
    With(check_all_hard_constraints(args.objects, args.room_width, args.room_height),
         LAMBDA found :
            With(ScoreOf(found, args.objects, args.room_width, args.room_height),
                 LAMBDA score :
                    [layout |-> args.objects, violations |-> found,
                     initial_score |-> score, current_score |-> score,
                     iteration_count |-> 0, explanation |-> <<>>,
                     outcome |-> "Running"]))

\* step 7 on the best candidate
EngineCommit(args, run, best) ==
    With(ApplyMove(run.layout, best.move), LAMBDA moved :
        With(check_all_hard_constraints(moved, args.room_width, args.room_height),
             LAMBDA found :
                [run EXCEPT
                    !.layout = moved,
                    !.violations = found,
                    !.current_score =
                        ScoreOf(found, moved, args.room_width, args.room_height),
                    !.iteration_count = @ + 1,
                    !.explanation = Append(@, MoveDescription(run.layout, best.move))]))

\* one pass of the loop, steps 1-7
EngineStep(args, run) ==
    IF run.violations = <<>> THEN [run EXCEPT !.outcome = "Converged"]
    ELSE IF run.iteration_count >= args.max_iterations
    THEN [run EXCEPT !.outcome = "BudgetExhausted"]
    ELSE With(ScoredCandidates(run.layout, args.locked_ids, args.room_width,
                               args.room_height, run.violations),
              LAMBDA scored :
                 IF scored # <<>>
                      /\ Improves(BestCandidate(scored).total,
                                  run.current_score.total_score)
                 THEN EngineCommit(args, run, BestCandidate(scored))
                 ELSE [run EXCEPT !.outcome = "LocalOptimum"])

RECURSIVE EngineRun(_, _)
\* the loop, to its terminal state
EngineRun(args, run) ==
    IF run.outcome # "Running" THEN run ELSE EngineRun(args, EngineStep(args, run))

\* what run_optimization returns for a run in a terminal state
ResultOf(run) ==
    [proposed_layout |-> run.layout,
     current_score |-> run.current_score,
     initial_score |-> run.initial_score,
     iteration_count |-> run.iteration_count,
     explanation |-> run.explanation]

run_optimization(args) == ResultOf(EngineRun(args, EngineStart(args)))

\* lines 19-82 for a request that passed validation
optimize_layout(req) ==
    With([req EXCEPT !.current_layout = MarkLockedObjects(@, req.locked_ids)],
         LAMBDA marked :
            IF WellFormedInput(marked.current_layout,
                               marked.room_dimensions.width_estimate,
                               marked.room_dimensions.height_estimate)
            THEN OptimizeResponse(run_optimization(EngineArgs(marked)), marked)
            ELSE OptimizationFailed)

\* POST /optimize: validation by the framework, then the handler
PostOptimize(req) ==
    IF ValidOptimizeRequest(req) THEN optimize_layout(req) ELSE ValidationError

(***************************************************************************)
(* routes/optimize.py: quick_optimize.                                     *)
(***************************************************************************)
QuickBudget == 2

\* the quick handler leaving max_iterations as the request has it
KeepBudget(req) == req

\* line 92: request.max_iterations = 2
ForceBudget(req) == [req EXCEPT !.max_iterations = QuickBudget]

\* budgets sent to /optimize/quick: the ends of the schema's range, one
\* beyond each, and one above the forced budget
QuickBudgets ==
    {MinIterations - 1, MinIterations, MaxBudget + 1, MaxIterations, MaxIterations + 1}

QuickRequests ==
    {[req EXCEPT !.max_iterations = budget] : req \in Requests, budget \in QuickBudgets}

QuickInit ==
    /\ input \in QuickRequests
    /\ request = input
    /\ pc = "quick received"
    /\ layout = <<>>
    /\ engine = NoArgs
    /\ violations = <<>>
    /\ candidates = <<>>
    /\ iteration_count = 0
    /\ initial_score = NoScore
    /\ current_score = NoScore
    /\ explanation = <<>>
    /\ outcome = "Idle"
    /\ seen = {}
    /\ response = NoResponse
    /\ probe = <<>>
    /\ called = "none"
    /\ answer = None

\* the framework parses the body into an OptimizeRequest, or answers 422
ParseQuickRequest ==
    /\ pc = "quick received"
    /\ IF ValidOptimizeRequest(input)
       THEN /\ pc' = "quick handler"
            /\ response' = response
       ELSE /\ pc' = "done"
            /\ response' = ValidationError
    /\ UNCHANGED <<input, request, layout, engine, violations, candidates,
                   iteration_count, initial_score, current_score, explanation,
                   outcome, seen>>
    /\ UNCHANGED kernel

\* quick_optimize, lines 92-93: the budget is overwritten and the request
\* is handed to optimize_layout
EnterQuick ==
    /\ pc = "quick handler"
    /\ request' = ForceBudget(request)
    /\ pc' = "handler"
    /\ UNCHANGED <<input, layout, engine, violations, candidates, iteration_count,
                   initial_score, current_score, explanation, outcome, seen,
                   response>>
    /\ UNCHANGED kernel

QuickNext ==
    \/ ParseQuickRequest
    \/ EnterQuick
    \/ MarkLocked
    \/ StartOptimization
    \/ Converge
    \/ ExhaustBudget
    \/ EvaluateCandidates
    \/ StopAtLocalOptimum
    \/ CommitMove
    \/ Respond

QuickSpec == QuickInit /\ [][QuickNext]_vars

(***************************************************************************)
(* Direct calls of the geometry kernel, the checker and the scorer, on     *)
(* layouts placed on a coarse grid.  The request handler stays idle.       *)
(***************************************************************************)
\* side of a grid cell of the layouts called with
Grid == 25

\* objects are placed at Grid * k, k from -1 to MaxCoord
MaxCoord == 3

\* longest violation list handed to the scorer
MaxTally == 8

\* the room of the direct calls: three cells wide, two cells high
ProbeWidth == 3 * Grid

ProbeHeight == 2 * Grid

Spots == {Grid * k : k \in (-1)..MaxCoord}

RowSpots == {Grid * k : k \in 0..(MaxCoord - 1)}

Sides == {Grid, 2 * Grid}

\* label and type of the objects called with: furniture, a fixture, a door
Kinds == {<<"bed", MOVABLE>>, <<"wall", STRUCTURAL>>, <<"door", STRUCTURAL>>}

RowKinds == {<<"bed", MOVABLE>>, <<"door", STRUCTURAL>>}

Thing(id, kind, bbox) ==
    [id |-> id, label |-> kind[1], bbox |-> bbox, type |-> kind[2],
     is_locked |-> FALSE]

\* an object in the corner of the room and a second one anywhere on the grid
PairLayouts ==
    {<<Thing("a", ka, <<0, 0, sa[1], sa[2]>>),
       Thing("b", kb, <<pb[1], pb[2], sb[1], sb[2]>>)>> :
        ka \in Kinds, sa \in Sides \X Sides,
        kb \in Kinds, pb \in Spots \X Spots, sb \in Sides \X Sides}

RowThings(id) ==
    {Thing(id, k, <<x, Grid, w, Grid>>) : k \in RowKinds, x \in RowSpots, w \in Sides}

\* three objects in a row across the room
RowLayouts ==
    {<<a, b, c>> : a \in RowThings("a"), b \in RowThings("b"), c \in RowThings("c")}

PileThings(id) ==
    {Thing(id, <<"bed", MOVABLE>>, <<x, Grid, 2 * Grid, Grid>>) : x \in {Grid, 2 * Grid}}

\* four pieces of furniture piled on each other, in the room or sticking out
PileLayouts ==
    {<<a, b, c, d>> : a \in PileThings("a"), b \in PileThings("b"),
                      c \in PileThings("c"), d \in PileThings("d")}

Probes ==
    {[objects |-> objects, room_width |-> ProbeWidth, room_height |-> ProbeHeight] :
        objects \in {<<>>} \cup PairLayouts \cup RowLayouts \cup PileLayouts}

\* walking paths: along the row, down the room, and across it
Segments ==
    {<<<<0 - 2 * Grid, Grid + (Grid \div 2)>>, <<6 * Grid, Grid + (Grid \div 2)>>>>,
     <<<<Grid + (Grid \div 2), 0 - 2 * Grid>>, <<Grid + (Grid \div 2), 6 * Grid>>>>,
     <<<<0, 0>>, <<3 * Grid, 3 * Grid>>>>}

PathWidths == {2, Grid, DefaultPathWidth}

\* the handler's variables while no request is being served
RouteIdle ==
    /\ input = Request(<<>>, {}, RoomSide, MinIterations)
    /\ request = input
    /\ pc = "idle"
    /\ layout = <<>>
    /\ engine = NoArgs
    /\ violations = <<>>
    /\ candidates = <<>>
    /\ iteration_count = 0
    /\ initial_score = NoScore
    /\ current_score = NoScore
    /\ explanation = <<>>
    /\ outcome = "Idle"
    /\ seen = {}
    /\ response = NoResponse

route == <<input, request, pc, layout, engine, violations, candidates,
           iteration_count, initial_score, current_score, explanation, outcome,
           seen, response>>

KernelInit ==
    /\ RouteIdle
    /\ probe \in Probes
    /\ called = "none"
    /\ answer = None

\* the three pair functions on objects i and j, in both argument orders
PairFunctions(obj_a, obj_b) ==
    [check_overlap |-> check_overlap(obj_a, obj_b),
     calculate_overlap_area |-> calculate_overlap_area(obj_a, obj_b),
     calculate_clearance_sq |-> calculate_clearance_sq(obj_a, obj_b)]

CallPairFunctions ==
    /\ called = "none"
    /\ \E i, j \in 1..Len(probe.objects) :
           /\ i < j
           /\ answer' = [i |-> i, j |-> j,
                         ab |-> PairFunctions(probe.objects[i], probe.objects[j]),
                         ba |-> PairFunctions(probe.objects[j], probe.objects[i])]
    /\ called' = "pair functions"
    /\ UNCHANGED <<probe, route>>

\* is_path_blocked on the layout, and on the layout with its doors taken out
CallIsPathBlocked ==
    /\ called = "none"
    /\ \E segment \in Segments, path_width \in PathWidths :
           LET NoDoor(obj) == ~(obj.type = STRUCTURAL /\ obj.label = "door")
           IN  answer' = [start |-> segment[1], end |-> segment[2],
                          path_width |-> path_width,
                          result |-> is_path_blocked(segment[1], segment[2],
                                                     probe.objects, path_width),
                          without_doors |->
                              is_path_blocked(segment[1], segment[2],
                                              SelectSeq(probe.objects, NoDoor),
                                              path_width)]
    /\ called' = "is_path_blocked"
    /\ UNCHANGED <<probe, route>>

CallFindCollisions ==
    /\ called = "none"
    /\ answer' = find_collisions(probe.objects)
    /\ called' = "find_collisions"
    /\ UNCHANGED <<probe, route>>

CallCheckRoomBounds ==
    /\ called = "none"
    /\ \E i \in 1..Len(probe.objects) :
           answer' = [i |-> i,
                      result |-> check_room_bounds(probe.objects[i], probe.room_width,
                                                   probe.room_height)]
    /\ called' = "check_room_bounds"
    /\ UNCHANGED <<probe, route>>

CallCheckConstraints ==
    /\ called = "none"
    /\ answer' = check_all_hard_constraints(probe.objects, probe.room_width,
                                            probe.room_height)
    /\ called' = "check_all_hard_constraints"
    /\ UNCHANGED <<probe, route>>

CallCalculateScore ==
    /\ called = "none"
    /\ answer' = calculate_score(probe.objects, probe.room_width, probe.room_height)
    /\ called' = "calculate_score"
    /\ UNCHANGED <<probe, route>>

KernelNext ==
    \/ CallPairFunctions
    \/ CallIsPathBlocked
    \/ CallFindCollisions
    \/ CallCheckRoomBounds
    \/ CallCheckConstraints
    \/ CallCalculateScore

KernelSpec == KernelInit /\ [][KernelNext]_vars

(***************************************************************************)
(* The constraint score of a violation list that grows and gets worse.     *)
(***************************************************************************)
\* the violations added: an error and a warning
Tallied ==
    {Violation(OVERLAP, "error", <<"a", "b">>),
     Violation(CLEARANCE, "warning", <<"a", "b">>)}

ScorerInit ==
    /\ RouteIdle
    /\ probe = <<>>
    /\ called = "ConstraintScore"
    /\ answer = ConstraintScore(probe)

\* one more violation
AddViolation ==
    /\ Len(probe) < MaxTally
    /\ \E v \in Tallied : probe' = Append(probe, v)
    /\ answer' = ConstraintScore(probe')
    /\ called' = "add"
    /\ UNCHANGED route

\* a warning becomes an error
RaiseSeverity ==
    /\ \E k \in 1..Len(probe) :
           /\ probe[k].severity = "warning"
           /\ probe' = [probe EXCEPT ![k].severity = "error"]
    /\ answer' = ConstraintScore(probe')
    /\ called' = "raise"
    /\ UNCHANGED route

ScorerNext == AddViolation \/ RaiseSeverity

ScorerSpec == ScorerInit /\ [][ScorerNext]_vars

(***************************************************************************)
(* agents/vision_node.py: the post-processing of the detector's output,    *)
(* called directly.  The request handler stays idle.                       *)
(***************************************************************************)
\* box_2d coordinates are thousandths of the image side
BoxScale == 1000

\* int() of a quotient: towards zero
TruncDiv(a, b) == IF a >= 0 THEN a \div b ELSE -((-a) \div b)

\* lines 222-225 without the clamp
KeepCoordinate(v) == v

\* lines 222-225: max(0, min(1000, v))
ClampCoordinate(v) == Max(0, Min(BoxScale, v))

\* int(v / 1000 * side); on the image sides and coordinates called with the
\* floating-point quotient truncates to the same integer as the exact one
ScaleToImage(v, side) == TruncDiv(v * side, BoxScale)

\* lines 212-236: [ymin, xmin, ymax, xmax] to [x, y, width, height]
convert_box_2d_to_bbox(box_2d, image_width, image_height) ==
    LET ymin == ClampCoordinate(box_2d[1])
        xmin == ClampCoordinate(box_2d[2])
        ymax == ClampCoordinate(box_2d[3])
        xmax == ClampCoordinate(box_2d[4])
    IN  <<ScaleToImage(xmin, image_width),
          ScaleToImage(ymin, image_height),
          Max(1, ScaleToImage(xmax - xmin, image_width)),
          Max(1, ScaleToImage(ymax - ymin, image_height))>>

AttributeError == "AttributeError"

\* the fields RoomObject declares, models/room.py 38-43
DetectedObject(id, label, size) ==
    [id |-> id, label |-> label, bbox |-> <<0, 0, size[1], size[2]>>,
     type |-> MOVABLE, orientation |-> 0, is_locked |-> FALSE]

\* lines 263 and 271-276, 284: the beds, their areas, the largest first; the
\* sort is stable, so the earliest of the largest is the primary bed
BedsOf(objects) == SelectSeq(objects, LAMBDA obj : obj.label = "bed")

BedArea(obj) == obj.bbox[3] * obj.bbox[4]

PrimaryBed(beds) ==
    beds[CHOOSE i \in 1..Len(beds) :
             /\ \A j \in 1..Len(beds) : BedArea(beds[j]) <= BedArea(beds[i])
             /\ \A j \in 1..(i - 1) : BedArea(beds[j]) < BedArea(beds[i])]

\* lines 288-306: area below 0.6 of the primary's, aspect below 0.4, or
\* more than two beds
ShouldReclassify(obj, primary_area, beds) ==
    LET w == obj.bbox[3]
        h == obj.bbox[4]
    IN  \/ 10 * w * h < 6 * primary_area
        \/ Max(w, h) > 0 /\ 10 * Min(w, h) < 4 * Max(w, h)
        \/ Len(beds) > 2

\* line 309: obj.id.replace("bed", "sofa"), on the ids called with
ReplaceBedBySofa(id) ==
    CASE id = "bed_1" -> "sofa_1"
      [] id = "bed_2" -> "sofa_2"
      [] id = "bed_3" -> "sofa_3"
      [] id = "bed_4" -> "sofa_4"
      [] OTHER -> id

\* lines 315-316 read obj.z_index and obj.material_hint
ReadableForCopy(obj) == {"z_index", "material_hint"} \subseteq DOMAIN obj

\* lines 310-317: the copy relabelled sofa
Reclassified(obj) ==
    [obj EXCEPT !.id = ReplaceBedBySofa(obj.id), !.label = "sofa"]

\* lines 253-326; raised is the exception the call ends with, if any
deduplicate_beds_and_sofas(objects) ==
    LET beds == BedsOf(objects)
    IN  IF Len(beds) <= 1 THEN [raised |-> None, objects |-> objects]
        ELSE LET primary == PrimaryBed(beds)
                 Relabel(obj) ==
                     /\ obj.label = "bed"
                     /\ obj.id # primary.id
                     /\ ShouldReclassify(obj, BedArea(primary), beds)
             IN  IF \E i \in 1..Len(objects) :
                        Relabel(objects[i]) /\ ~ReadableForCopy(objects[i])
                 THEN [raised |-> AttributeError, objects |-> <<>>]
                 ELSE [raised |-> None,
                       objects |-> [i \in 1..Len(objects) |->
                                       IF Relabel(objects[i])
                                       THEN Reclassified(objects[i])
                                       ELSE objects[i]]]

\* box coordinates called with are multiples of 1000 / BoxCells, from one
\* step below 0 to one step above 1000
BoxCells == 4

\* longest object list called with
MaxObjects == 3

BoxCoordinates == {(BoxScale \div BoxCells) * k : k \in (-1)..(BoxCells + 1)}

\* a one-pixel image, a three-pixel image, a camera frame
ImageSides == {1, 3, 640}

BoxProbes ==
    {[kind |-> "box", box_2d |-> box, image_width |-> size[1],
      image_height |-> size[2]] :
        box \in BoxCoordinates \X BoxCoordinates \X BoxCoordinates \X BoxCoordinates,
        size \in ImageSides \X ImageSides}

\* a full bed, one just below and one at 0.6 of its area, a narrow one, and
\* a long narrow one that is the largest
DetectedSizes == {<<100, 100>>, <<100, 59>>, <<100, 60>>, <<100, 30>>, <<200, 70>>}

DetectedIds(label) ==
    IF label = "bed" THEN <<"bed_1", "bed_2", "bed_3", "bed_4">>
    ELSE <<"sofa_1", "sofa_2", "sofa_3", "sofa_4">>

\* the objects that may stand at position k of a list; ids are unique
DetectedAt(k) ==
    {DetectedObject(DetectedIds(label)[k], label, size) :
        label \in {"bed", "sofa"}, size \in DetectedSizes}

RECURSIVE DetectedLists(_)
DetectedLists(n) ==
    IF n = 0 THEN {<<>>}
    ELSE {Append(objects, obj) : objects \in DetectedLists(n - 1), obj \in DetectedAt(n)}

ObjectProbes ==
    {[kind |-> "objects", objects |-> objects] :
        objects \in UNION {DetectedLists(n) : n \in 0..MaxObjects}}

VisionInit ==
    /\ RouteIdle
    /\ probe \in BoxProbes \cup ObjectProbes
    /\ called = "none"
    /\ answer = None

CallConvertBox ==
    /\ called = "none"
    /\ probe.kind = "box"
    /\ answer' = convert_box_2d_to_bbox(probe.box_2d, probe.image_width,
                                        probe.image_height)
    /\ called' = "convert_box_2d_to_bbox"
    /\ UNCHANGED <<probe, route>>

CallDeduplicate ==
    /\ called = "none"
    /\ probe.kind = "objects"
    /\ answer' = deduplicate_beds_and_sofas(probe.objects)
    /\ called' = "deduplicate_beds_and_sofas"
    /\ UNCHANGED <<probe, route>>

VisionNext == CallConvertBox \/ CallDeduplicate

VisionSpec == VisionInit /\ [][VisionNext]_vars

(***************************************************************************)
(* core/geometry.py: calculate_furniture_density, called directly.         *)
(***************************************************************************)
RECURSIVE FurnitureArea(_)
\* line 231: sum(obj.width * obj.height for obj in objects)
FurnitureArea(objects) ==
    IF objects = <<>> THEN 0
    ELSE Width(Head(objects)) * Height(Head(objects)) + FurnitureArea(Tail(objects))

\* a float, kept as the exact fraction num / den with den > 0
Fraction(num, den) == [num |-> num, den |-> den]

\* lines 227-232
calculate_furniture_density(room_width, room_height, objects) ==
    LET room_area == room_width * room_height
    IN  IF room_area = 0 THEN Fraction(0, 1)
        ELSE Fraction(FurnitureArea(objects) * 100, room_area)

\* rooms of no, one and two cells a side
DensitySides == {0, Grid, 2 * Grid}

\* furniture at position k of a list: in the corner or one cell to the right
DensityThings(k) ==
    {Thing(<<"a", "b", "c", "d">>[k], <<"bed", MOVABLE>>, <<x, 0, s[1], s[2]>>) :
        x \in {0, Grid}, s \in Sides \X Sides}

RECURSIVE DensityLayouts(_)
DensityLayouts(n) ==
    IF n = 0 THEN {<<>>}
    ELSE {Append(objects, obj) : objects \in DensityLayouts(n - 1),
                                 obj \in DensityThings(n)}

DensityProbes ==
    {[room_width |-> size[1], room_height |-> size[2], objects |-> objects] :
        size \in DensitySides \X DensitySides,
        objects \in UNION {DensityLayouts(n) : n \in 0..MaxObjects}}

DensityInit ==
    /\ RouteIdle
    /\ probe \in DensityProbes
    /\ called = "none"
    /\ answer = None

CallFurnitureDensity ==
    /\ called = "none"
    /\ answer' = calculate_furniture_density(probe.room_width, probe.room_height,
                                             probe.objects)
    /\ called' = "calculate_furniture_density"
    /\ UNCHANGED <<probe, route>>

DensityNext == CallFurnitureDensity

DensitySpec == DensityInit /\ [][DensityNext]_vars

(***************************************************************************)
(* Two invocations of optimize_layout in flight at once.  The first is the *)
(* handler above; the second runs the same steps on a state of its own,    *)
(* held in probe: its request as sent and as worked on, its position, the  *)
(* state of its run and its response.                                      *)
(***************************************************************************)
\* a handler working on the request of the other invocation
SharedRequest(call) == request

\* line 20: each invocation works on the request object it was called with
OwnRequest(call) == call.request

NewCall(req) ==
    [input |-> req, request |-> req, pc |-> "received", run |-> NoRun,
     response |-> NoResponse]

\* a bed sticking out of the room and a desk; a bed and a desk behind a door
ConcurrentLayouts ==
    {<<Bed(RoomSide - 20, 0), Desk(x, 0)>> : x \in Positions}
      \cup {<<Door, Bed(0, y), Desk(Cell, Cell)>> : y \in Positions}

ConcurrentRequests ==
    {Request(objects, locked, RoomSide, MaxBudget) :
        objects \in ConcurrentLayouts, locked \in {{}, {"bed_1"}}}
      \cup {Request(<<Bed(0, 0), [Desk(0, 0) EXCEPT !.id = "bed_1"]>>, {}, RoomSide,
                    MaxBudget),
            Request(<<Bed(0, 0)>>, {}, RoomSide, MaxIterations + 1)}

ConcurrentInit ==
    /\ input \in ConcurrentRequests
    /\ request = input
    /\ pc = "received"
    /\ layout = <<>>
    /\ engine = NoArgs
    /\ violations = <<>>
    /\ candidates = <<>>
    /\ iteration_count = 0
    /\ initial_score = NoScore
    /\ current_score = NoScore
    /\ explanation = <<>>
    /\ outcome = "Idle"
    /\ seen = {}
    /\ response = NoResponse
    /\ probe \in {NewCall(req) : req \in ConcurrentRequests}
    /\ called = "none"
    /\ answer = None

\* the framework parses the second body, or answers 422
OtherParseRequest ==
    /\ probe.pc = "received"
    /\ probe' = IF ValidOptimizeRequest(probe.input)
                THEN [probe EXCEPT !.pc = "handler"]
                ELSE [probe EXCEPT !.pc = "done", !.response = ValidationError]
    /\ UNCHANGED <<route, called, answer>>

\* lines 36-39 of the second invocation
OtherMarkLocked ==
    /\ probe.pc = "handler"
    /\ probe' = [probe EXCEPT
                   !.request =
                       [OwnRequest(probe) EXCEPT
                          !.current_layout =
                              MarkLockedObjects(@, OwnRequest(probe).locked_ids)],
                   !.pc = "marked"]
    /\ UNCHANGED <<route, called, answer>>

\* run_optimization is entered by the second invocation
OtherStartOptimization ==
    /\ probe.pc = "marked"
    /\ LET args == EngineArgs(OwnRequest(probe))
       IN  probe' = IF WellFormedInput(args.objects, args.room_width,
                                       args.room_height)
                    THEN [probe EXCEPT !.run = EngineStart(args), !.pc = "running"]
                    ELSE [probe EXCEPT !.pc = "done",
                                       !.response = OptimizationFailed]
    /\ UNCHANGED <<route, called, answer>>

\* one pass of the second invocation's loop
OtherEngineStep ==
    /\ probe.pc = "running"
    /\ LET next == EngineStep(EngineArgs(OwnRequest(probe)), probe.run)
       IN  probe' = [probe EXCEPT
                       !.run = next,
                       !.pc = IF next.outcome = "Running" THEN "running"
                              ELSE "finished"]
    /\ UNCHANGED <<route, called, answer>>

\* lines 50-76 of the second invocation
OtherRespond ==
    /\ probe.pc = "finished"
    /\ probe' = [probe EXCEPT
                   !.response = OptimizeResponse(ResultOf(probe.run),
                                                 OwnRequest(probe)),
                   !.pc = "done"]
    /\ UNCHANGED <<route, called, answer>>

ConcurrentNext ==
    \/ ParseRequest
    \/ MarkLocked
    \/ StartOptimization
    \/ Converge
    \/ ExhaustBudget
    \/ EvaluateCandidates
    \/ StopAtLocalOptimum
    \/ CommitMove
    \/ Respond
    \/ OtherParseRequest
    \/ OtherMarkLocked
    \/ OtherStartOptimization
    \/ OtherEngineStep
    \/ OtherRespond

ConcurrentSpec == ConcurrentInit /\ [][ConcurrentNext]_vars

(***************************************************************************)
(* Properties.                                                             *)
(***************************************************************************)
Terminal == {"Converged", "BudgetExhausted", "LocalOptimum"}

Answered == pc = "done" /\ response.status = 200

InputWidth == input.room_dimensions.width_estimate

InputHeight == input.room_dimensions.height_estimate

InputScore == calculate_score(input.current_layout, InputWidth, InputHeight)

\* well-formed input in the sense of the error taxonomy, within the schema
WellFormedRequest(req) ==
    /\ req.room_dimensions.width_estimate >= 1
    /\ req.room_dimensions.height_estimate >= 1
    /\ \A i \in 1..Len(req.current_layout) :
           /\ req.current_layout[i].bbox[3] >= 1
           /\ req.current_layout[i].bbox[4] >= 1
           /\ \A j \in 1..Len(req.current_layout) :
                  i # j => req.current_layout[i].id # req.current_layout[j].id
    /\ req.max_iterations \in 1..20

\* the malformed inputs of the error taxonomy
MalformedRoom(req) ==
    req.room_dimensions.width_estimate <= 0 \/ req.room_dimensions.height_estimate <= 0

MalformedObjects(req) ==
    \E i \in 1..Len(req.current_layout) :
        \/ req.current_layout[i].bbox[3] <= 0
        \/ req.current_layout[i].bbox[4] <= 0
        \/ \E j \in 1..Len(req.current_layout) :
               i # j /\ req.current_layout[i].id = req.current_layout[j].id

\* C1: non-regression.  The score of the working layout never falls below
\* the score of the input layout, and a served request reports a final
\* score at least the input's score and an improvement that is not negative.
C1_NonRegression ==
    /\ pc \in {"running", "proposed", "finished"} =>
           current_score.total_score >= InputScore.total_score
    /\ Answered =>
           /\ response.layout_score >= InputScore.total_score
           /\ initial_score = InputScore
           /\ response.improvement >= 0

\* a served request whose layout was improved
C1_Witness == Answered /\ response.improvement > 0 /\ response.iterations >= 1

\* C2: lock invariance.  In the working layout at every iteration, and in
\* the layout returned, every object that is structural or whose id is in
\* locked_ids has the bbox it had in the input.
C2_LockInvariance ==
    LET Fixed(obj) == obj.id \in input.locked_ids \/ obj.type = STRUCTURAL
        Kept(objects) ==
            /\ Len(objects) = Len(input.current_layout)
            /\ \A i \in 1..Len(objects) :
                   Fixed(input.current_layout[i]) =>
                       objects[i].bbox = input.current_layout[i].bbox
    IN  /\ pc \in {"running", "proposed", "finished"} => Kept(layout)
        /\ Answered => Kept(response.new_layout)

\* an overlapping pair with one locked member: only the other one was moved
C2_Witness ==
    /\ Answered
    /\ response.iterations >= 1
    /\ Len(input.current_layout) = 2
    /\ "bed_1" \in input.locked_ids
    /\ calculate_overlap_area(input.current_layout[1], input.current_layout[2]) > 0
    /\ response.new_layout[2].bbox # input.current_layout[2].bbox

\* C3: bounded termination.  Every run on well-formed input ends in one of
\* Converged, BudgetExhausted, LocalOptimum and keeps that state; the
\* iteration counter and the iterations reported never exceed max_iterations.
C3_BoundedTermination ==
    /\ [](WellFormedRequest(input) =>
             /\ iteration_count <= input.max_iterations
             /\ Answered => response.iterations <= input.max_iterations)
    /\ [][(outcome \in Terminal) => (outcome' = outcome)]_vars
    /\ (pc = "received" /\ WellFormedRequest(input))
           ~> (Answered /\ outcome \in Terminal)

\* a run stopped by its budget after using all of it
C3_Witness ==
    /\ Answered
    /\ outcome = "BudgetExhausted"
    /\ response.iterations = input.max_iterations

\* C4: rollback guarantee.  The layout returned scores at least as high as
\* the input layout and every working layout reached by a committed move,
\* and the score reported is the score of the layout returned.
C4_BestLayoutReturned ==
    Answered =>
        LET returned == calculate_score(response.new_layout, InputWidth, InputHeight)
        IN  /\ InputScore.total_score \in seen
            /\ \A total \in seen : returned.total_score >= total
            /\ response.layout_score = returned.total_score

\* a served request that went through three layouts of different scores
C4_Witness == Answered /\ Cardinality(seen) >= 3 /\ response.iterations >= 2

\* C5: idempotence.  A layout with no violation and a total of 100 is
\* returned with every bbox unchanged and an iteration count of 0.
C5_Idempotence ==
    (/\ Answered
     /\ check_all_hard_constraints(input.current_layout, InputWidth, InputHeight) = <<>>
     /\ InputScore.total_score = 10000) =>
        /\ response.iterations = 0
        /\ Len(response.new_layout) = Len(input.current_layout)
        /\ \A i \in 1..Len(input.current_layout) :
               /\ response.new_layout[i].id = input.current_layout[i].id
               /\ response.new_layout[i].bbox = input.current_layout[i].bbox

\* a clean two-object layout with a door was served
C5_Witness ==
    /\ Answered
    /\ Len(input.current_layout) = 3
    /\ check_all_hard_constraints(input.current_layout, InputWidth, InputHeight) = <<>>
    /\ InputScore.total_score = 10000

\* C6: the operation does not mutate its input.  After the call every object
\* of the request has the bbox and the is_locked flag the caller gave it.
C6_InputNotMutated ==
    pc = "done" =>
        /\ Len(request.current_layout) = Len(input.current_layout)
        /\ \A i \in 1..Len(input.current_layout) :
               /\ request.current_layout[i].bbox = input.current_layout[i].bbox
               /\ request.current_layout[i].is_locked
                      = input.current_layout[i].is_locked

\* C7: totality.  A well-formed request is always served: the answer carries
\* a layout with the objects of the input and the run's explanation; the run
\* ended in one of the three final states, and the violations that remain
\* are those of the layout returned, listed in the answer.
C7_Total ==
    WellFormedRequest(input) =>
        /\ response.status \in {0, 200}
        /\ pc = "done" =>
               /\ response.status = 200
               /\ outcome \in Terminal
               /\ Len(response.new_layout) = Len(input.current_layout)
               /\ response.explanation = explanation
               /\ Len(response.explanation) = response.iterations
               /\ response.constraint_violations =
                      check_all_hard_constraints(response.new_layout,
                                                 InputWidth, InputHeight)
               /\ response.constraint_violations # <<>> =>
                      outcome \in {"LocalOptimum", "BudgetExhausted"}

\* a request served at a local optimum with an error still in the answer
C7_Witness ==
    /\ Answered
    /\ outcome = "LocalOptimum"
    /\ \E k \in 1..Len(response.constraint_violations) :
           response.constraint_violations[k].severity = "error"

C8_WitnessRoom == pc = "done" /\ response.status = 422 /\ MalformedRoom(input)

\* position of the object carrying the id, in the layout
Position(objects, id) == IndexOfId(objects, id)

\* violation a comes before violation b in the order of its rule
InRuleOrder(objects, a, b) ==
    LET ia == [k \in 1..Len(a.objects_involved) |->
                  Position(objects, a.objects_involved[k])]
        ib == [k \in 1..Len(b.objects_involved) |->
                  Position(objects, b.objects_involved[k])]
    IN  CASE a.constraint_name = BOUNDS -> ia[1] < ib[1]
          [] a.constraint_name \in {OVERLAP, CLEARANCE} ->
                 /\ ia[1] < ia[2]
                 /\ ib[1] < ib[2]
                 /\ ia[1] < ib[1] \/ (ia[1] = ib[1] /\ ia[2] < ib[2])
          [] a.constraint_name = DOOR_CLEARANCE ->
                 ia[1] < ib[1] \/ (ia[1] = ib[1] /\ ia[2] < ib[2])
          [] a.constraint_name = PATH_BLOCKING -> TRUE

Ordered(objects, found) ==
    \A i, j \in 1..Len(found) :
        i < j =>
            /\ RuleRank(found[i].constraint_name) <= RuleRank(found[j].constraint_name)
            /\ found[i].constraint_name = found[j].constraint_name =>
                   InRuleOrder(objects, found[i], found[j])

\* C10: violation ordering.  In every list the checker returns (for the
\* working layout of a run and for the layout answered) Bounds violations
\* come first, then Overlap, Clearance, Door clearance and Path blocking;
\* within a rule the violations follow the input order of the objects, or
\* the (i < j) order of the pairs.
C10_ViolationOrdering ==
    /\ pc \in {"running", "proposed", "finished"} => Ordered(layout, violations)
    /\ Answered => Ordered(response.new_layout, response.constraint_violations)

\* a list with four of the rules, two violations of the same rule among them
C10_Witness ==
    /\ pc = "running"
    /\ Cardinality({violations[k].constraint_name : k \in 1..Len(violations)}) >= 4
    /\ \E i, j \in 1..Len(violations) :
           i < j /\ violations[i].constraint_name = violations[j].constraint_name

\* a list with three Overlap violations
C10_WitnessOverlaps ==
    /\ pc = "running"
    /\ Cardinality({k \in 1..Len(violations) :
                       violations[k].constraint_name = OVERLAP}) >= 3

\* a list that starts with a Bounds violation and continues with another rule
C10_WitnessBounds ==
    /\ pc = "running"
    /\ Len(violations) >= 2
    /\ violations[1].constraint_name = BOUNDS
    /\ violations[2].constraint_name # BOUNDS

(***************************************************************************)
(* Properties of the direct calls.                                         *)
(***************************************************************************)
\* the objects of the pair the pair functions were called on
PairA == probe.objects[answer.i]

PairB == probe.objects[answer.j]

\* C11: symmetry.  check_overlap, calculate_overlap_area and
\* calculate_clearance return the same value for (A, B) and for (B, A).
C11_Symmetry ==
    called = "pair functions" =>
        /\ answer.ab.check_overlap = answer.ba.check_overlap
        /\ answer.ab.calculate_overlap_area = answer.ba.calculate_overlap_area
        /\ answer.ab.calculate_clearance_sq = answer.ba.calculate_clearance_sq

\* two objects of different sizes apart from each other, the second one to
\* the right of and below the first
C11_Witness ==
    /\ called = "pair functions"
    /\ answer.ab.calculate_clearance_sq > 0
    /\ X(PairB) > X(PairA) + Width(PairA)
    /\ Y(PairB) > Y(PairA) + Height(PairA)
    /\ Width(PairA) # Width(PairB)

\* the rectangles of A and B share part of an edge, or a corner, and nothing else
Touching(a, b) ==
    LET ax == X(a) + Width(a)
        ay == Y(a) + Height(a)
        bx == X(b) + Width(b)
        by == Y(b) + Height(b)
    IN  \/ (ax = X(b) \/ bx = X(a)) /\ Y(a) <= by /\ Y(b) <= ay
        \/ (ay = Y(b) \/ by = Y(a)) /\ X(a) <= bx /\ X(b) <= ax

\* C12: overlap/clearance consistency, for rectangles of positive width and
\* height.  A positive overlap area implies a clearance of 0; a clearance of
\* 0 implies check_overlap; rectangles that only touch have check_overlap
\* true, overlap area 0 and clearance 0.
C12_OverlapClearanceConsistency ==
    called = "pair functions" =>
        /\ answer.ab.calculate_overlap_area > 0 => answer.ab.calculate_clearance_sq = 0
        /\ answer.ab.calculate_clearance_sq = 0 => answer.ab.check_overlap
        /\ Touching(PairA, PairB) =>
               /\ answer.ab.check_overlap
               /\ answer.ab.calculate_overlap_area = 0
               /\ answer.ab.calculate_clearance_sq = 0

\* two rectangles that share one corner point
C12_Witness ==
    /\ called = "pair functions"
    /\ X(PairB) = X(PairA) + Width(PairA)
    /\ Y(PairB) = Y(PairA) + Height(PairA)
    /\ answer.ab.check_overlap
    /\ answer.ab.calculate_overlap_area = 0

\* a door: a structural object labelled "door"
IsDoor(obj) == obj.type = STRUCTURAL /\ obj.label = "door"

\* the corridor of the call meets the rectangle of the object
InCorridor(obj) ==
    CorridorIntersects(answer.start, answer.end, answer.path_width,
                       object_to_polygon(obj))

\* C13: door exclusion.  is_path_blocked never names a door as the blocker,
\* and returns what it returns for the same obstacles without the doors.
C13_DoorExclusion ==
    called = "is_path_blocked" =>
        /\ \A k \in 1..Len(probe.objects) :
               IsDoor(probe.objects[k]) => answer.result.blocker # probe.objects[k].id
        /\ answer.result = answer.without_doors

\* the segment runs through the rectangle of a door that comes first in the
\* list, and the call names a later object
C13_Witness ==
    /\ called = "is_path_blocked"
    /\ Len(probe.objects) = 3
    /\ IsDoor(probe.objects[1])
    /\ SegmentIntersects(answer.start, answer.end, object_to_polygon(probe.objects[1]))
    /\ answer.result.blocked
    /\ answer.result.blocker = probe.objects[3].id

\* the segment runs through the rectangle of a door and the path is free
C13_WitnessFree ==
    /\ called = "is_path_blocked"
    /\ \E k \in 1..Len(probe.objects) :
           /\ IsDoor(probe.objects[k])
           /\ SegmentIntersects(answer.start, answer.end,
                                object_to_polygon(probe.objects[k]))
    /\ ~answer.result.blocked

\* positions of the obstacles that are no doors and meet the corridor
Hits == {k \in 1..Len(probe.objects) :
            ~IsDoor(probe.objects[k]) /\ InCorridor(probe.objects[k])}

\* C14: is_path_blocked returns (True, id) for the first obstacle in input
\* order, doors left out, whose rectangle meets the corridor, and
\* (False, None) exactly when there is none.
C14_FirstBlocker ==
    called = "is_path_blocked" =>
        /\ answer.result.blocked <=> Hits # {}
        /\ Hits = {} => answer.result.blocker = None
        /\ Hits # {} =>
               \E k \in Hits :
                   /\ \A h \in Hits : k <= h
                   /\ answer.result.blocker = probe.objects[k].id

\* two obstacles meet the corridor and the first of them is not the first
\* object of the list
C14_Witness ==
    /\ called = "is_path_blocked"
    /\ Cardinality(Hits) >= 2
    /\ 1 \notin Hits
    /\ answer.result.blocked

\* objects in the list, none of them in the way
C14_WitnessFree ==
    /\ called = "is_path_blocked"
    /\ Len(probe.objects) >= 2
    /\ \A k \in 1..Len(probe.objects) : ~IsDoor(probe.objects[k])
    /\ ~answer.result.blocked

\* area common to the rectangles of two objects, from their bboxes
CommonArea(a, b) ==
    LET w == Min(X(a) + Width(a), X(b) + Width(b)) - Max(X(a), X(b))
        h == Min(Y(a) + Height(a), Y(b) + Height(b)) - Max(Y(a), Y(b))
    IN  IF w > 0 /\ h > 0 THEN w * h ELSE 0

\* the pairs (i < j) of the layout whose rectangles have area in common
Colliding ==
    {p \in (1..Len(probe.objects)) \X (1..Len(probe.objects)) :
        p[1] < p[2] /\ CommonArea(probe.objects[p[1]], probe.objects[p[2]]) > 0}

\* C15: find_collisions returns exactly the triples (objects[i].id,
\* objects[j].id, overlap area) with i < j and a positive overlap area,
\* ordered by i and then by j, each pair once; pairs that only touch are left out.
C15_FindCollisions ==
    called = "find_collisions" =>
        /\ Len(answer) = Cardinality(Colliding)
        /\ \A k \in 1..Len(answer) :
               \E p \in Colliding :
                   /\ answer[k][1] = probe.objects[p[1]].id
                   /\ answer[k][2] = probe.objects[p[2]].id
                   /\ answer[k][3] = CommonArea(probe.objects[p[1]], probe.objects[p[2]])
                   /\ answer[k][3] > 0
        /\ \A k, l \in 1..Len(answer) :
               k < l =>
                   LET ki == Position(probe.objects, answer[k][1])
                       kj == Position(probe.objects, answer[k][2])
                       li == Position(probe.objects, answer[l][1])
                       lj == Position(probe.objects, answer[l][2])
                   IN  ki < li \/ (ki = li /\ kj < lj)

\* three objects: two colliding pairs listed, the third pair only touches
C15_Witness ==
    /\ called = "find_collisions"
    /\ Len(probe.objects) = 3
    /\ Len(answer) = 2
    /\ \E i, j \in 1..3 :
           /\ i < j
           /\ Touching(probe.objects[i], probe.objects[j])
           /\ CommonArea(probe.objects[i], probe.objects[j]) = 0

\* the rectangle of the object lies within [0, W] x [0, H]
Within(obj, W, H) ==
    /\ obj.bbox[1] >= 0
    /\ obj.bbox[2] >= 0
    /\ obj.bbox[1] + obj.bbox[3] <= W
    /\ obj.bbox[2] + obj.bbox[4] <= H

\* positions in the checker's list of the violations of a rule naming the ids
Reports(rule, ids) ==
    {n \in 1..Len(answer) :
        answer[n].constraint_name = rule /\ answer[n].objects_involved = ids}

\* C16: check_room_bounds(obj, W, H) is true exactly when x >= 0, y >= 0,
\* x + width <= W and y + height <= H; the checker reports one Bounds
\* violation, an error, for each object for which it is false, and no other.
C16_RoomBounds ==
    /\ called = "check_room_bounds" =>
           (answer.result <=>
                Within(probe.objects[answer.i], probe.room_width, probe.room_height))
    /\ called = "check_all_hard_constraints" =>
           /\ \A k \in 1..Len(probe.objects) :
                  Cardinality(Reports(BOUNDS, <<probe.objects[k].id>>)) =
                      IF Within(probe.objects[k], probe.room_width, probe.room_height)
                      THEN 0 ELSE 1
           /\ \A n \in 1..Len(answer) :
                  answer[n].constraint_name = BOUNDS =>
                      /\ answer[n].severity = "error"
                      /\ \E k \in 1..Len(probe.objects) :
                             answer[n].objects_involved = <<probe.objects[k].id>>

\* the checker on a layout with an object flush against the far walls and
\* an object that sticks out
C16_Witness ==
    /\ called = "check_all_hard_constraints"
    /\ \E k \in 1..Len(probe.objects) :
           /\ X(probe.objects[k]) + Width(probe.objects[k]) = probe.room_width
           /\ Y(probe.objects[k]) + Height(probe.objects[k]) = probe.room_height
           /\ Reports(BOUNDS, <<probe.objects[k].id>>) = {}
    /\ \E k \in 1..Len(probe.objects) :
           /\ X(probe.objects[k]) + Width(probe.objects[k]) > probe.room_width
           /\ Reports(BOUNDS, <<probe.objects[k].id>>) # {}

\* check_room_bounds on an object flush against the far walls
C16_WitnessFlush ==
    /\ called = "check_room_bounds"
    /\ X(probe.objects[answer.i]) + Width(probe.objects[answer.i]) = probe.room_width
    /\ Y(probe.objects[answer.i]) + Height(probe.objects[answer.i]) = probe.room_height
    /\ answer.result

\* the pairs (i < j) of positions of the layout
Pairs ==
    {p \in (1..Len(probe.objects)) \X (1..Len(probe.objects)) : p[1] < p[2]}

PairIds(p) == <<probe.objects[p[1]].id, probe.objects[p[2]].id>>

BothStructural(p) ==
    probe.objects[p[1]].type = STRUCTURAL /\ probe.objects[p[2]].type = STRUCTURAL

BothMovable(p) ==
    probe.objects[p[1]].type = MOVABLE /\ probe.objects[p[2]].type = MOVABLE

\* C17: overlap rule.  The checker reports one Overlap violation, an error
\* with objects_involved = [idA, idB] in input order, for every pair with a
\* positive overlap area unless both objects are structural, and no Overlap
\* violation for any other pair.
C17_OverlapRule ==
    called = "check_all_hard_constraints" =>
        /\ \A p \in Pairs :
               Cardinality(Reports(OVERLAP, PairIds(p))) =
                   IF /\ CommonArea(probe.objects[p[1]], probe.objects[p[2]]) > 0
                      /\ ~BothStructural(p)
                   THEN 1 ELSE 0
        /\ \A n \in 1..Len(answer) :
               answer[n].constraint_name = OVERLAP =>
                   /\ answer[n].severity = "error"
                   /\ \E p \in Pairs : answer[n].objects_involved = PairIds(p)

\* two doors that overlap and are not reported, next to a reported pair
C17_Witness ==
    /\ called = "check_all_hard_constraints"
    /\ \E p \in Pairs :
           /\ BothStructural(p)
           /\ CommonArea(probe.objects[p[1]], probe.objects[p[2]]) > 0
           /\ Reports(OVERLAP, PairIds(p)) = {}
    /\ \E p \in Pairs : Reports(OVERLAP, PairIds(p)) # {}

\* square of the distance between the rectangles of two objects, from their bboxes
GapSq(a, b) ==
    LET dx == Max(0, Max(X(b) - (X(a) + Width(a)), X(a) - (X(b) + Width(b))))
        dy == Max(0, Max(Y(b) - (Y(a) + Height(a)), Y(a) - (Y(b) + Height(b))))
    IN  dx * dx + dy * dy

\* C18: clearance rule.  The checker reports one Clearance violation, a
\* warning, for every pair of movable objects that are closer than
\* MinClearance and have no area in common (pairs that touch included), no
\* Clearance violation for any other pair, and never an Overlap and a
\* Clearance violation for the same pair.
C18_ClearanceRule ==
    called = "check_all_hard_constraints" =>
        /\ \A p \in Pairs :
               /\ Cardinality(Reports(CLEARANCE, PairIds(p))) =
                      IF /\ BothMovable(p)
                         /\ GapSq(probe.objects[p[1]], probe.objects[p[2]])
                                < MinClearance * MinClearance
                         /\ CommonArea(probe.objects[p[1]], probe.objects[p[2]]) = 0
                      THEN 1 ELSE 0
               /\ Reports(OVERLAP, PairIds(p)) = {} \/ Reports(CLEARANCE, PairIds(p)) = {}
        /\ \A n \in 1..Len(answer) :
               answer[n].constraint_name = CLEARANCE =>
                   /\ answer[n].severity = "warning"
                   /\ \E p \in Pairs : answer[n].objects_involved = PairIds(p)

\* a pair of beds that touch, reported once as too close, next to a pair of
\* beds that overlap, reported as overlapping only
C18_Witness ==
    /\ called = "check_all_hard_constraints"
    /\ \E p \in Pairs :
           /\ BothMovable(p)
           /\ Touching(probe.objects[p[1]], probe.objects[p[2]])
           /\ Cardinality(Reports(CLEARANCE, PairIds(p))) = 1
    /\ \E p \in Pairs :
           /\ BothMovable(p)
           /\ Reports(OVERLAP, PairIds(p)) # {}
           /\ Reports(CLEARANCE, PairIds(p)) = {}

\* two beds further apart than MinClearance: nothing reported
C18_WitnessApart ==
    /\ called = "check_all_hard_constraints"
    /\ \E p \in Pairs :
           /\ BothMovable(p)
           /\ GapSq(probe.objects[p[1]], probe.objects[p[2]]) >= MinClearance * MinClearance
           /\ Reports(CLEARANCE, PairIds(p)) = {}

(***************************************************************************)
(* Properties of the scorer.                                               *)
(***************************************************************************)
\* number of violations of the scored list with the severity
Count(severity) == Cardinality({k \in 1..Len(probe) : probe[k].severity = severity})

\* 100 minus the penalties of the scored list, before clamping
RawConstraintScore ==
    100 - (ErrorPenalty * Count("error") + WarningPenalty * Count("warning"))

\* C19: scorer monotonicity.  The constraint score is 100 minus the sum of
\* the penalties, clamped to [0, 100]; an error costs more than a warning;
\* adding a violation to the list, or turning a warning into an error,
\* never increases the constraint score.
C19_ScorerMonotone ==
    /\ [](answer = IF RawConstraintScore < 0 THEN 0
                   ELSE IF RawConstraintScore > 100 THEN 100
                   ELSE RawConstraintScore)
    /\ [](\A v, w \in Tallied :
              (v.severity = "error" /\ w.severity = "warning") =>
                  Penalty(v) > Penalty(w))
    /\ [][answer' <= answer]_vars

\* a warning of a list of several violations was raised to an error and
\* the score is still above 0
C19_Witness ==
    /\ called = "raise"
    /\ Len(probe) >= 3
    /\ Count("warning") >= 1
    /\ answer > 0
    /\ answer < 100

\* a list whose penalties exceed 100 points: the score is clamped to 0
C19_WitnessClamped ==
    /\ called = "add"
    /\ RawConstraintScore < 0
    /\ answer = 0

\* a LayoutScore with every score in [0, 100] (the total in hundredths)
InRange(score) ==
    /\ score.total_score >= 0
    /\ score.total_score <= 100 * 100
    /\ score.walkability_score >= 0
    /\ score.walkability_score <= 100
    /\ score.constraint_score >= 0
    /\ score.constraint_score <= 100
    /\ score.preference_score >= 0
    /\ score.preference_score <= 100

\* C20: score range.  Every LayoutScore the scorer produces, and every score
\* a run of the optimizer holds or answers with, has its total and its three
\* sub-scores within [0, 100], however many violations the layout has.
C20_ScoreRange ==
    /\ called = "calculate_score" => InRange(answer)
    /\ pc \in {"running", "proposed", "finished"} =>
           InRange(initial_score) /\ InRange(current_score)
    /\ Answered =>
           response.layout_score >= 0 /\ response.layout_score <= 100 * 100

\* the score of a pile of furniture with more than 100 points of penalties
C20_Witness ==
    /\ called = "calculate_score"
    /\ Len(probe.objects) = 4
    /\ ErrorPenalty * (Cardinality(Colliding)
                          + Cardinality({k \in 1..4 :
                                ~Within(probe.objects[k], probe.room_width,
                                        probe.room_height)})) > 100
    /\ answer.constraint_score = 0
    /\ answer.total_score > 0

(***************************************************************************)
(* Properties of the optimizer's commits and of the response's violations. *)
(***************************************************************************)
\* the step commits a move: the working layout of a proposal changes
Commits == pc = "proposed" /\ layout' # layout

\* the step ends the run in LocalOptimum
StopsAtLocalOptimum == outcome # "LocalOptimum" /\ outcome' = "LocalOptimum"

\* C24: every committed move strictly increases the total score and
\* increments the counter by one; when no candidate is strictly better the
\* run ends in LocalOptimum with the layout and the counter unchanged; so
\* the counter equals the number of committed moves, which is the number of
\* descriptions appended and the number of totals seen after the first.
C24_StrictImprovement ==
    /\ [](seen # {} =>
            /\ iteration_count = Cardinality(seen) - 1
            /\ iteration_count = Len(explanation))
    /\ [][/\ Commits =>
               /\ current_score'.total_score > current_score.total_score
               /\ iteration_count' = iteration_count + 1
               /\ Len(explanation') = Len(explanation) + 1
          /\ iteration_count' # iteration_count => Commits
          /\ StopsAtLocalOptimum =>
               /\ pc = "proposed"
               /\ \A i \in 1..Len(candidates) :
                      candidates[i].total <= current_score.total_score
               /\ layout' = layout
               /\ iteration_count' = iteration_count]_vars

\* a run that committed a move and then found no strictly better candidate
C24_Witness == outcome = "LocalOptimum" /\ iteration_count >= 1 /\ candidates # <<>>

\* a run that stopped on candidates none of which was better, before any move
C24_WitnessNoMove ==
    /\ outcome = "LocalOptimum"
    /\ iteration_count = 0
    /\ \E i \in 1..Len(candidates) : candidates[i].total = current_score.total_score

IdsOf(objects) == {objects[i].id : i \in 1..Len(objects)}

\* C26: the constraint_violations of a response are the checker's list for
\* the new_layout of that response, which is the optimizer's final working
\* layout and the layout of the request when no move was committed; and
\* new_layout has the ids of the request's current_layout.
C26_ViolationsOfNewLayout ==
    Answered =>
        /\ response.constraint_violations =
               check_all_hard_constraints(response.new_layout, InputWidth, InputHeight)
        /\ response.new_layout = layout
        /\ response.iterations = 0 => response.new_layout = request.current_layout
        /\ IdsOf(response.new_layout) = IdsOf(input.current_layout)
        /\ Len(response.new_layout) = Cardinality(IdsOf(input.current_layout))

\* a response after two moves whose violations are neither those of the
\* request's layout nor none
C26_Witness ==
    /\ Answered
    /\ response.iterations >= 2
    /\ response.constraint_violations # <<>>
    /\ response.constraint_violations #
           check_all_hard_constraints(input.current_layout, InputWidth, InputHeight)

(***************************************************************************)
(* Properties of /optimize/quick.                                          *)
(***************************************************************************)
\* C25: /optimize/quick runs the optimization of /optimize with the budget
\* forced to 2 whatever max_iterations the request carries: the engine is
\* called with the request's layout, locks and room and a budget of 2, the
\* response is the one /optimize gives for the request with max_iterations
\* 2, and its iterations are at most 2.
C25_QuickBudget ==
    /\ engine # NoArgs =>
           /\ engine.max_iterations = 2
           /\ engine.objects = MarkLockedObjects(input.current_layout, input.locked_ids)
           /\ engine.locked_ids = input.locked_ids
           /\ engine.room_width = InputWidth
           /\ engine.room_height = InputHeight
    /\ iteration_count <= 2
    /\ (pc = "done" /\ response.status # 422) =>
           /\ response = PostOptimize([input EXCEPT !.max_iterations = 2])
           /\ response.iterations <= 2

\* a request for twenty iterations, stopped by the budget after two moves
C25_Witness ==
    /\ Answered
    /\ input.max_iterations = MaxIterations
    /\ outcome = "BudgetExhausted"
    /\ response.iterations = 2

(***************************************************************************)
(* Properties of the detector's post-processing.                           *)
(***************************************************************************)
\* C22: for any box [ymin, xmin, ymax, xmax] and positive image width and
\* height, the conversion clamps each coordinate to [0, 1000] before it
\* scales, so x and y are the clamped xmin and ymin scaled down to whole
\* pixels inside the image, and width and height are the scaled clamped
\* extents, raised to 1 when they are smaller: they are at least 1 also when
\* xmax <= xmin or ymax <= ymin.
C22_ConvertBox ==
    called = "convert_box_2d_to_bbox" =>
        LET Clamped(v) == IF v < 0 THEN 0 ELSE IF v > 1000 THEN 1000 ELSE v
            ymin == Clamped(probe.box_2d[1])
            xmin == Clamped(probe.box_2d[2])
            ymax == Clamped(probe.box_2d[3])
            xmax == Clamped(probe.box_2d[4])
            Floor(pixels, v, side) ==
                1000 * pixels <= v * side /\ v * side < 1000 * (pixels + 1)
            Extent(pixels, low, high, side) ==
                /\ pixels >= 1
                /\ pixels <= Max(1, side)
                /\ high <= low => pixels = 1
                /\ high > low => pixels = 1 \/ Floor(pixels, high - low, side)
        IN  /\ Len(answer) = 4
            /\ Floor(answer[1], xmin, probe.image_width)
            /\ Floor(answer[2], ymin, probe.image_height)
            /\ answer[1] \in 0..probe.image_width
            /\ answer[2] \in 0..probe.image_height
            /\ Extent(answer[3], xmin, xmax, probe.image_width)
            /\ Extent(answer[4], ymin, ymax, probe.image_height)

\* a box with xmax below xmin and a negative ymin, converted
C22_Witness ==
    /\ called = "convert_box_2d_to_bbox"
    /\ probe.box_2d[4] < probe.box_2d[2]
    /\ probe.box_2d[1] < 0
    /\ answer[3] = 1
    /\ answer[2] = 0

\* a box reaching beyond the right edge, converted to more than one pixel
C22_WitnessScaled ==
    /\ called = "convert_box_2d_to_bbox"
    /\ probe.box_2d[4] > 1000
    /\ answer[3] > 1
    /\ answer[1] + answer[3] = probe.image_width

\* C27: for a list with unique ids, the deduplication returns a list of the
\* same length and order with ids still unique and every bbox unchanged, in
\* which the largest bed keeps the label bed and every object that was
\* relabelled is a sofa.
C27_Deduplicate ==
    called = "deduplicate_beds_and_sofas" =>
        /\ answer.raised = None
        /\ Len(answer.objects) = Len(probe.objects)
        /\ \A i, j \in 1..Len(answer.objects) :
               answer.objects[i].id = answer.objects[j].id => i = j
        /\ \A i \in 1..Len(answer.objects) :
               /\ answer.objects[i].bbox = probe.objects[i].bbox
               /\ answer.objects[i].label # probe.objects[i].label =>
                      answer.objects[i].label = "sofa"
        /\ \A i \in 1..Len(answer.objects) :
               (/\ probe.objects[i].label = "bed"
                /\ \A j \in 1..Len(probe.objects) :
                       probe.objects[j].label = "bed" =>
                           BedArea(probe.objects[j]) < BedArea(probe.objects[i])
                             \/ j = i)
                   => answer.objects[i].label = "bed"

(***************************************************************************)
(* Properties of the furniture density.                                    *)
(***************************************************************************)
\* C23: the density is the sum of width * height over the objects, each
\* object counted in full, divided by the room area and multiplied by 100;
\* it is 0 when the room area is 0; and it is a percentage between 0 and
\* 100.
C23_Density ==
    called = "calculate_furniture_density" =>
        LET room_area == probe.room_width * probe.room_height
            Areas == [i \in 1..Len(probe.objects) |->
                         probe.objects[i].bbox[3] * probe.objects[i].bbox[4]]
            Total[i \in 0..Len(probe.objects)] ==
                IF i = 0 THEN 0 ELSE Total[i - 1] + Areas[i]
        IN  /\ answer.den > 0
            /\ room_area = 0 => answer.num = 0
            /\ room_area # 0 =>
                   answer.num * room_area = 100 * Total[Len(probe.objects)] * answer.den
            /\ 0 <= answer.num
            /\ answer.num <= 100 * answer.den

\* the density as the claim has it, without the range: the sum of the
\* objects' areas over the room area times 100, and 0 for a room of area 0
DensityFormula ==
    called = "calculate_furniture_density" =>
        LET room_area == probe.room_width * probe.room_height
            Areas == [i \in 1..Len(probe.objects) |->
                         probe.objects[i].bbox[3] * probe.objects[i].bbox[4]]
            Total[i \in 0..Len(probe.objects)] ==
                IF i = 0 THEN 0 ELSE Total[i - 1] + Areas[i]
        IN  /\ answer.den > 0
            /\ room_area = 0 => answer.num = 0
            /\ room_area # 0 =>
                   answer.num * room_area = 100 * Total[Len(probe.objects)] * answer.den
            /\ 0 <= answer.num

(***************************************************************************)
(* Properties of concurrent invocations.                                   *)
(***************************************************************************)
\* C21: concurrent invocations do not interfere.  Under every interleaving
\* of the steps of two invocations, each on its own request, each answers
\* what it answers when it runs alone, from the first step to the last
\* without the other; and no step of one changes the state of the other.
C21_NoInterference ==
    /\ [](/\ pc = "done" => response = PostOptimize(input)
          /\ probe.pc = "done" => probe.response = PostOptimize(probe.input))
    /\ [][route' = route \/ probe' = probe]_vars

\* both invocations in the middle of their runs, on different requests,
\* each after a committed move
C21_Witness ==
    /\ called = "none"
    /\ probe # <<>>
    /\ probe.input # input
    /\ pc = "proposed"
    /\ iteration_count >= 1
    /\ probe.pc = "running"
    /\ probe.run.iteration_count >= 1

\* both answered, with different layouts
C21_WitnessAnswered ==
    /\ called = "none"
    /\ probe # <<>>
    /\ Answered
    /\ probe.pc = "done"
    /\ probe.response.status = 200
    /\ probe.response.new_layout # response.new_layout
    /\ probe.response.iterations >= 1
    /\ response.iterations >= 1

====
